---- MODULE Spec2Model ----
(***************************************************************************)
(* A model of the retrieval-augmented question-answering engine of         *)
(* rag_engine.py (class RAGEngine) and rag_engine_with_vision.py (class    *)
(* RAGEngineWithVision).                                                   *)
(*                                                                         *)
(* The engine object is the record `engine`, one field per attribute of    *)
(* `self`.  Every method is an operator from an engine record and the      *)
(* method's inputs to a result record [e, raised, error, value, requests]: *)
(* the engine after the call, whether the call raised, the message of the  *)
(* exception, the returned value and the invocations of model-calling      *)
(* components the method made.  External calls (ChatOpenAI(...),           *)
(* FAISS.from_documents, ConversationalRetrievalChain.from_llm, .invoke)   *)
(* may fail: the input `f` of an operator names the external call that     *)
(* raises in that run ("none": no call raises).                            *)
(*                                                                         *)
(* Objects whose identity matters (the FAISS index, the conversation       *)
(* memory) carry an `id`; a constructor gets an id that no object alive    *)
(* before the call has, so that within one call "the same object" is "the  *)
(* same id".  Between calls the ids of the live objects are renamed to a   *)
(* canonical numbering (Normalize): an id has no meaning but identity.     *)
(* The memory is the one mutable object that can be referenced twice       *)
(* (self.memory and chain.memory): a write through the chain is applied    *)
(* to self.memory too when both are the same object.                       *)
(*                                                                         *)
(* A statement about a call is a state predicate over all inputs of the    *)
(* call in the current state: it compares `engine` with the result of the  *)
(* method's operator.  `ret` records which method was called last, with    *)
(* which argument, and whether it raised.                                  *)
(***************************************************************************)
EXTENDS Integers, Sequences, FiniteSets, TLC

VARIABLES engine, ret, session

vars == <<engine, ret, session>>

(***************************************************************************)
(* Bounds of the model.                                                    *)
(***************************************************************************)
\* longest conversation memory a successful retrieval answer may extend
MaxTurns == 2
\* longest list of processed documents an ingestion may extend
MaxDocs == 1

(***************************************************************************)
(* Values.                                                                 *)
(***************************************************************************)
\* Python's None
None == [none |-> TRUE]

\* model names, as character sequences (the code tests their prefixes)
gpt_4o_mini == <<"g", "p", "t", "-", "4", "o", "-", "m", "i", "n", "i">>
o3_mini == <<"o", "3", "-", "m", "i", "n", "i">>

Models == {gpt_4o_mini, o3_mini}

Classes == {"RAGEngine", "RAGEngineWithVision"}

Questions == {"q1", "q2"}

Answers == {"a1"}

\* str.startswith
startswith(s, prefix) ==
    /\ Len(s) >= Len(prefix)
    /\ SubSeq(s, 1, Len(prefix)) = prefix

\* RAGEngine._get_temperature, in tenths (1.0 -> 10, 0.8 -> 8, 0.7 -> 7)
RAGEngine_get_temperature(model_name) ==
    IF startswith(model_name, <<"o", "1">>) \/ startswith(model_name, <<"o", "3">>)
    THEN 10
    ELSE IF startswith(model_name, <<"g", "p", "t", "-", "5">>)
         THEN 8
         ELSE 7

\* RAGEngineWithVision._get_temperature, in tenths
RAGEngineWithVision_get_temperature(model_name) ==
    IF startswith(model_name, <<"o", "3">>) \/ startswith(model_name, <<"o", "4">>)
    THEN 10
    ELSE 7

\* self._get_temperature, dispatched on the class of the engine
get_temperature(e, model_name) ==
    IF e.class = "RAGEngine"
    THEN RAGEngine_get_temperature(model_name)
    ELSE RAGEngineWithVision_get_temperature(model_name)

\* search_kwargs={"k": ...} of the retriever
RAGEngine_k == 4
RAGEngineWithVision_k == 6

retriever_k(e) == IF e.class = "RAGEngine" THEN RAGEngine_k ELSE RAGEngineWithVision_k

(***************************************************************************)
(* Objects of the libraries, as far as the engine observes them.           *)
(***************************************************************************)
\* ChatOpenAI(model=..., temperature=...)
ChatOpenAI(model, temperature) == [model |-> model, temperature |-> temperature]

\* ConversationBufferMemory(...): a new, empty memory object
ConversationBufferMemory(id) == [id |-> id, turns |-> <<>>]

\* FAISS.from_documents(documents=chunks, ...): a new index over the chunks
FAISS_from_documents(id, chunks) == [id |-> id, docs |-> chunks]

\* ConversationalRetrievalChain.from_llm(llm, retriever=vs.as_retriever(k), memory)
ConversationalRetrievalChain_from_llm(llm, vectorstore, k, memory) ==
    [llm |-> llm, retriever |-> [vectorstore |-> vectorstore, k |-> k], memory |-> memory]

\* the ids of the FAISS indexes reachable from the engine
LiveIndexIds(e) ==
    (IF e.vectorstore = None THEN {} ELSE {e.vectorstore.id})
    \cup (IF e.chain = None THEN {} ELSE {e.chain.retriever.vectorstore.id})

\* the ids of the memory objects reachable from the engine
LiveMemoryIds(e) ==
    (IF e.memory = None THEN {} ELSE {e.memory.id})
    \cup (IF e.chain = None \/ e.chain.memory = None THEN {} ELSE {e.chain.memory.id})

\* the id of an object constructed while the objects with the ids live are alive
FreshId(live) ==
    CHOOSE i \in 1..(Cardinality(live) + 1) :
        /\ i \notin live
        /\ \A j \in 1..(i - 1) : j \in live

(***************************************************************************)
(* Results of a method call.                                               *)
(***************************************************************************)
Returns(e, value, requests) ==
    [e |-> e, raised |-> FALSE, error |-> "", value |-> value, requests |-> requests]

Raises(e, error, requests) ==
    [e |-> e, raised |-> TRUE, error |-> error, value |-> None, requests |-> requests]

(***************************************************************************)
(* __init__                                                                *)
(***************************************************************************)
\* RAGEngine.__init__ (with _init_chat_llm)
RAGEngine_init(model) ==
    [class |-> "RAGEngine",
     model |-> model,
     vectorstore |-> None,
     chain |-> None,
     llm |-> None,
     chat_llm |-> ChatOpenAI(model, RAGEngine_get_temperature(model)),
     memory |-> None,
     processed_documents |-> <<>>]

\* RAGEngineWithVision.__init__ (the class has no chat_llm attribute)
RAGEngineWithVision_init(model) ==
    [class |-> "RAGEngineWithVision",
     model |-> model,
     vectorstore |-> None,
     chain |-> None,
     llm |-> None,
     chat_llm |-> None,
     memory |-> None,
     processed_documents |-> <<>>]

new_engine(class, model) ==
    IF class = "RAGEngine" THEN RAGEngine_init(model) ELSE RAGEngineWithVision_init(model)

(***************************************************************************)
(* Strings are sequences of characters.  File names and paths.             *)
(***************************************************************************)
UpperCase == <<"A", "B", "C", "D", "E", "F", "G", "H", "I", "J", "K", "L", "M", "N", "O", "P", "Q", "R", "S", "T", "U", "V", "W", "X", "Y", "Z">>
LowerCase == <<"a", "b", "c", "d", "e", "f", "g", "h", "i", "j", "k", "l", "m", "n", "o", "p", "q", "r", "s", "t", "u", "v", "w", "x", "y", "z">>

\* the lower-case letter of every upper-case letter
ToLower ==
    [c \in {UpperCase[i] : i \in 1..Len(UpperCase)} |->
        LowerCase[CHOOSE i \in 1..Len(UpperCase) : UpperCase[i] = c]]

\* str.lower
lower(s) == [i \in 1..Len(s) |-> IF s[i] \in DOMAIN ToLower THEN ToLower[s[i]] ELSE s[i]]

\* str.rfind of one character: the last position of c in s, 0 when there is none
rfind(s, c) ==
    IF \E i \in 1..Len(s) : s[i] = c
    THEN CHOOSE i \in 1..Len(s) : s[i] = c /\ \A j \in (i + 1)..Len(s) : s[j] # c
    ELSE 0

\* str.lstrip of one character
RECURSIVE lstrip(_, _)
lstrip(s, c) == IF s # <<>> /\ Head(s) = c THEN lstrip(Tail(s), c) ELSE s

\* os.path.splitext: the extension starts at the last dot of the last path
\* component, unless only dots precede it in that component
splitext(path) ==
    LET sepIndex == rfind(path, "/")
        dotIndex == rfind(path, ".")
    IN  IF dotIndex > sepIndex /\ \E i \in (sepIndex + 1)..(dotIndex - 1) : path[i] # "."
        THEN <<SubSeq(path, 1, dotIndex - 1), SubSeq(path, dotIndex, Len(path))>>
        ELSE <<path, <<>>>>

\* os.path.basename
basename(path) == SubSeq(path, rfind(path, "/") + 1, Len(path))

\* mutant: _detect_file_type keeps the case of the extension
detect_file_type_keeping_case(file_name) == lstrip(splitext(file_name)[2], ".")

\* _detect_file_type (both classes)
detect_file_type(file_name) == lstrip(lower(splitext(file_name)[2]), ".")

\* the names of the uploaded files: text, upper-case extension, unknown
\* extension, no extension, image
a_txt == <<"a", ".", "t", "x", "t">>
b_PDF == <<"b", ".", "P", "D", "F">>
c_xyz == <<"c", ".", "x", "y", "z">>
d_noext == <<"d">>
e_png == <<"e", ".", "p", "n", "g">>

FileNames == {a_txt, b_PDF, c_xyz, d_noext, e_png}

\* the file a caller of the engine uploads
Uploads == {b_PDF}

\* the file types of the branches of _load_document_by_type that call a loader
LoaderTypes ==
    {<<"p", "d", "f">>, <<"d", "o", "c", "x">>, <<"d", "o", "c">>, <<"t", "x", "t">>, <<"m", "d">>, <<"r", "t", "f">>, <<"c", "s", "v">>, <<"x", "l", "s", "x">>, <<"x", "l", "s">>, <<"o", "d", "s">>}
    \cup {<<"j", "s", "o", "n">>, <<"x", "m", "l">>, <<"y", "a", "m", "l">>, <<"y", "m", "l">>}

\* RAGEngine._load_document_by_type, "Image files"
RAGEngine_ImageTypes == {<<"p", "n", "g">>, <<"j", "p", "g">>, <<"j", "p", "e", "g">>, <<"b", "m", "p">>, <<"t", "i", "f", "f">>, <<"g", "i", "f">>}

\* RAGEngineWithVision._is_image_file
RAGEngineWithVision_is_image_file(file_type) ==
    file_type \in {<<"p", "n", "g">>, <<"j", "p", "g">>, <<"j", "p", "e", "g">>, <<"b", "m", "p">>, <<"g", "i", "f">>, <<"w", "e", "b", "p">>, <<"t", "i", "f", "f">>}

\* tempfile.NamedTemporaryFile(delete=False, suffix=...).name: a path in the
\* temporary directory that ends with the suffix
NamedTemporaryFile_name(suffix) == <<"/", "t", "/", "x">> \o suffix

(***************************************************************************)
(* Ingestion.  The outcomes of the external calls an ingestion makes are   *)
(* its input x:                                                            *)
(*   x.tmp     "ok", or the step of the temporary file that raises:        *)
(*             "create" (NamedTemporaryFile) or "write" (tmp_file.write)   *)
(*   x.load    the number of documents loader.load() returns, or Raise     *)
(*   x.split   the number of chunks the splitter makes of each document,   *)
(*             or Raise                                                    *)
(*   x.vision  "ok" or "raise": the request to the vision model            *)
(*   x.image_support   the module constant IMAGE_SUPPORT                   *)
(***************************************************************************)
\* the outcome of a call that raises, where the outcome is otherwise a number
Raise == -1

\* langchain's Document
Document(page_content, metadata) == [page_content |-> page_content, metadata |-> metadata]

\* loader.load(): n documents whose metadata names the path that was loaded
Loader_load(file_path, n) ==
    [i \in 1..n |-> Document([section |-> i], [source |-> file_path])]

\* mutant: an unsupported file type is treated as a failed load
UnsupportedDocument_as_error(file_name, file_type) ==
    Document(<<"[Error loading file: ", file_name, "]">>,
             [source |-> file_name, type |-> "error", error |-> "Unsupported file type"])

\* the placeholder documents of _load_document_by_type
UnsupportedDocument(file_name, file_type) ==
    Document(<<"[Unsupported file format: ", file_type, "]">>,
             [source |-> file_name, type |-> "unsupported"])

ErrorDocument(file_name, error) ==
    Document(<<"[Error loading file: ", file_name, "]">>,
             [source |-> file_name, type |-> "error", error |-> error])

NoImageSupportDocument(file_name) ==
    Document(<<"[Image file: ", file_name,
               ". Image processing requires additional dependencies.]">>,
             [source |-> file_name, type |-> "image"])

\* mutant: a failure of the vision model gives the error placeholder of the
\* loader, as if _process_image_with_vision had no except clause of its own
RAGEngineWithVision_process_image_with_vision_uncaught(file_name, x) ==
    IF x.vision = "raise"
    THEN ErrorDocument(file_name, "vision_llm.invoke")
    ELSE Document(<<"[IMAGE: ", file_name, "]\n\n", "description">>,
                  [source |-> file_name, type |-> "image",
                   processed_with |-> "vision_model"])

\* RAGEngineWithVision._process_image_with_vision: never raises
RAGEngineWithVision_process_image_with_vision(file_name, x) ==
    IF x.vision = "raise"
    THEN Document(<<"[IMAGE: ", file_name, " - Could not process]">>,
                  [source |-> file_name, type |-> "image", error |-> "vision_llm.invoke"])
    ELSE Document(<<"[IMAGE: ", file_name, "]\n\n", "description">>,
                  [source |-> file_name, type |-> "image",
                   processed_with |-> "vision_model"])

\* mutant: _load_document_by_type without its except clause
RAGEngine_load_document_by_type_uncaught(file_path, x) ==
    LET file_type == detect_file_type(file_path)
        file_name == basename(file_path)
        load == IF x.load = Raise
                THEN [raised |-> TRUE, value |-> None]
                ELSE [raised |-> FALSE, value |-> Loader_load(file_path, x.load)]
    IN  IF file_type \in LoaderTypes
        THEN load
        ELSE IF file_type \in RAGEngine_ImageTypes
             THEN IF x.image_support
                  THEN load
                  ELSE [raised |-> FALSE, value |-> <<NoImageSupportDocument(file_name)>>]
             ELSE [raised |-> FALSE, value |-> <<UnsupportedDocument(file_name, file_type)>>]

\* RAGEngine._load_document_by_type: [raised, value]
RAGEngine_load_document_by_type(file_path, x) ==
    LET file_type == detect_file_type(file_path)
        file_name == basename(file_path)
        load == IF x.load = Raise
                THEN <<ErrorDocument(file_name, "loader.load")>>
                ELSE Loader_load(file_path, x.load)
    IN  [raised |-> FALSE,
         value |-> IF file_type \in LoaderTypes
                   THEN load
                   ELSE IF file_type \in RAGEngine_ImageTypes
                        THEN IF x.image_support
                             THEN load
                             ELSE <<NoImageSupportDocument(file_name)>>
                        ELSE <<UnsupportedDocument(file_name, file_type)>>]

\* RAGEngineWithVision._load_document_by_type(file_path) (file_bytes=None: the
\* image is read from file_path, x.load = Raise fails open/read)
RAGEngineWithVision_load_document_by_type(file_path, x) ==
    LET file_type == detect_file_type(file_path)
        file_name == basename(file_path)
    IN  [raised |-> FALSE,
         value |-> IF RAGEngineWithVision_is_image_file(file_type)
                   THEN IF x.load = Raise
                        THEN <<ErrorDocument(file_name, "open")>>
                        ELSE <<RAGEngineWithVision_process_image_with_vision(file_name, x)>>
                   ELSE IF file_type \in LoaderTypes
                        THEN IF x.load = Raise
                             THEN <<ErrorDocument(file_name, "loader.load")>>
                             ELSE Loader_load(file_path, x.load)
                        ELSE <<UnsupportedDocument(file_name, file_type)>>]

load_document_by_type(class, file_path, x) ==
    IF class = "RAGEngine"
    THEN RAGEngine_load_document_by_type(file_path, x)
    ELSE RAGEngineWithVision_load_document_by_type(file_path, x)

\* the loaders that return one document for the whole file (TextLoader,
\* Docx2txtLoader, JSONLoader with jq_schema '.'); the others return one
\* document per page, row or element, none for a file without any
SingleDocumentTypes == {<<"d", "o", "c", "x">>, <<"d", "o", "c">>, <<"t", "x", "t">>, <<"m", "d">>, <<"j", "s", "o", "n">>, <<"y", "a", "m", "l">>, <<"y", "m", "l">>}

\* most documents a loader returns, most chunks the splitter makes of one
MaxSections == 2
MaxChunks == 2

\* what loader.load() can do for a file of the type
LoadOutcomes(file_type) ==
    IF file_type \in SingleDocumentTypes THEN {1, Raise} ELSE (0..MaxSections) \cup {Raise}

\* the outcomes of the external calls of one ingestion
Outcome(tmp, load, split, vision, image_support) ==
    [tmp |-> tmp, load |-> load, split |-> split, vision |-> vision,
     image_support |-> image_support]

\* the outcomes of the external calls of one ingestion of a file of the type
\* (a call that is not reached has its one default outcome: the splitter
\* after a failed or empty load, the vision model and IMAGE_SUPPORT for a file
\* that is no image, every call after a failed temporary file)
IngestOutcomes(file_type) ==
    LET images == IF file_type \in RAGEngine_ImageTypes
                  THEN {"ok", "raise"} \X BOOLEAN
                  ELSE {<<"ok", TRUE>>}
    IN  {Outcome("create", 1, 1, "ok", TRUE), Outcome("write", 1, 1, "ok", TRUE)}
        \cup {Outcome("ok", load, 1, i[1], i[2]) :
                  load \in LoadOutcomes(file_type) \cap {0, Raise}, i \in images}
        \cup {Outcome("ok", ls[1], ls[2], i[1], i[2]) :
                  ls \in (LoadOutcomes(file_type) \ {0, Raise})
                             \X ((0..MaxChunks) \cup {Raise}),
                  i \in images}

\* text_splitter.split_documents: every chunk carries a copy of the metadata
\* of its document; a placeholder document is shorter than a chunk and makes
\* one chunk, a loaded document makes as many as its text needs (n)
split_document(doc, n) ==
    [j \in 1..(IF "type" \in DOMAIN doc.metadata THEN 1 ELSE n) |->
        Document([of |-> doc.page_content, part |-> j], doc.metadata)]

RECURSIVE split_documents(_, _)
split_documents(documents, n) ==
    IF documents = <<>>
    THEN <<>>
    ELSE split_document(Head(documents), n) \o split_documents(Tail(documents), n)

\* chunk.metadata['source'] = file_name
set_source(chunk, file_name) ==
    [chunk EXCEPT !.metadata =
        [k \in DOMAIN @ \cup {"source"} |-> IF k = "source" THEN file_name ELSE @[k]]]

\* for chunk in chunks: chunk.metadata['source'] = file_name
set_sources(chunks, file_name) ==
    [i \in 1..Len(chunks) |-> set_source(chunks[i], file_name)]

\* the chunks of a file that loads as one document and splits into n chunks
ChunksOf(file_name, n) ==
    set_sources(split_documents(Loader_load(NamedTemporaryFile_name(<<>>), 1), n), file_name)

\* the result of an ingestion: the result of the call and the number of
\* temporary files the call created that exist when it ends
Ingested(r, tmp_files) ==
    [e |-> r.e, raised |-> r.raised, error |-> r.error, value |-> r.value,
     requests |-> r.requests, tmp_files |-> tmp_files]

\* mutant: recording a processed file drops the index, as if the index had to
\* be rebuilt with the new file
record_processed_dropping_index(e, file_name) ==
    [e EXCEPT !.processed_documents = Append(@, file_name),
              !.vectorstore = None,
              !.chain = None]

\* self.processed_documents.append(file_name)
record_processed(e, file_name) ==
    [e EXCEPT !.processed_documents = Append(@, file_name)]

\* process_uploaded_file from the loaded documents on: `if not documents`,
\* the splitter (skipped for the images of RAGEngineWithVision), the source
\* of the chunks, the record of the file
process_loaded(e, file_name, documents, keep_whole, x, requests, tmp_files) ==
    IF documents = <<>>
    THEN Ingested(Returns(e, <<>>, requests), tmp_files)
    ELSE IF ~keep_whole /\ x.split = Raise
         THEN Ingested(Raises(e, "split_documents", requests), tmp_files)
         ELSE LET chunks == IF keep_whole
                            THEN documents
                            ELSE split_documents(documents, x.split)
              IN  Ingested(Returns(record_processed(e, file_name),
                                   set_sources(chunks, file_name), requests),
                           tmp_files)

\* process_uploaded_file through the temporary file.  NamedTemporaryFile
\* (delete=False) creates the file; a failure of tmp_file.write leaves the
\* with block before tmp_path is assigned, so the except clause finds
\* tmp_path None and unlinks nothing; after the load the file is unlinked.
process_through_tmp_file(e, file_name, file_type, x) ==
    IF x.tmp = "create"
    THEN Ingested(Raises(e, "NamedTemporaryFile", <<>>), 0)
    ELSE IF x.tmp = "write"
         THEN Ingested(Raises(e, "tmp_file.write", <<>>), 1)
         ELSE LET tmp_path == NamedTemporaryFile_name(<<".">> \o file_type)
                  loaded == load_document_by_type(e.class, tmp_path, x)
              IN  IF loaded.raised
                  THEN Ingested(Raises(e, "loader.load", <<>>), 1 - 1)
                  ELSE process_loaded(e, file_name, loaded.value, FALSE, x, <<>>, 1 - 1)

\* RAGEngine.process_uploaded_file
RAGEngine_process_uploaded_file(e, uploaded_file, x) ==
    LET file_name == uploaded_file.name
        file_type == detect_file_type(file_name)
    IN  process_through_tmp_file(e, file_name, file_type, x)

\* RAGEngineWithVision.process_uploaded_file: an image goes to the vision
\* model, without a temporary file, and is not split
RAGEngineWithVision_process_uploaded_file(e, uploaded_file, x) ==
    LET file_name == uploaded_file.name
        file_type == detect_file_type(file_name)
    IN  IF RAGEngineWithVision_is_image_file(file_type)
        THEN process_loaded(e, file_name,
                            <<RAGEngineWithVision_process_image_with_vision(file_name, x)>>,
                            TRUE, x,
                            <<[component |-> "vision_llm", input |-> file_name]>>,
                            0)
        ELSE process_through_tmp_file(e, file_name, file_type, x)

\* RAGEngine.process_document (RAGEngineWithVision has no such method): the
\* file at file_path is loaded and split; the chunks are returned as the
\* splitter made them, the base name of the path is recorded
RAGEngine_process_document(e, file_path, x) ==
    LET loaded == load_document_by_type(e.class, file_path, x)
    IN  IF loaded.raised
        THEN Ingested(Raises(e, "loader.load", <<>>), 0)
        ELSE IF loaded.value = <<>>
             THEN Ingested(Returns(e, <<>>, <<>>), 0)
             ELSE IF x.split = Raise
                  THEN Ingested(Raises(e, "split_documents", <<>>), 0)
                  ELSE Ingested(Returns(record_processed(e, basename(file_path)),
                                        split_documents(loaded.value, x.split),
                                        <<>>),
                                0)

process_uploaded_file(e, uploaded_file, x) ==
    IF e.class = "RAGEngine"
    THEN RAGEngine_process_uploaded_file(e, uploaded_file, x)
    ELSE RAGEngineWithVision_process_uploaded_file(e, uploaded_file, x)

\* Streamlit's UploadedFile
UploadedFile(name) == [name |-> name]

(***************************************************************************)
(* The splitter: RecursiveCharacterTextSplitter(chunk_size, chunk_overlap,  *)
(* length_function=len, separators=["\n\n", "\n", " ", ""]), with the      *)
(* defaults keep_separator=True and strip_whitespace=True.  A text is a    *)
(* sequence of characters.  The pieces of a text that is split at a        *)
(* separator are contiguous and cover it (the separator stays at the start *)
(* of the piece that follows it), so a piece is named by the offset of its *)
(* first character: `starts` is the set of these offsets.                  *)
(***************************************************************************)
RAGEngine_chunk_size == 1000
RAGEngine_chunk_overlap == 200
RAGEngineWithVision_chunk_size == 1200
RAGEngineWithVision_chunk_overlap == 300

chunk_size(e) ==
    IF e.class = "RAGEngine" THEN RAGEngine_chunk_size ELSE RAGEngineWithVision_chunk_size

chunk_overlap(e) ==
    IF e.class = "RAGEngine" THEN RAGEngine_chunk_overlap ELSE RAGEngineWithVision_chunk_overlap

\* separators=["\n\n", "\n", " ", ""]
Separators == << <<"\n", "\n">>, <<"\n">>, <<" ">>, <<>> >>

\* the characters str.strip removes
Whitespace == {" ", "\n"}

\* the first i of lo..hi that is in S, hi + 1 when there is none
FirstIndex(lo, hi, S) ==
    IF \E i \in lo..hi : i \in S
    THEN CHOOSE i \in lo..hi : i \in S /\ \A j \in lo..(i - 1) : j \notin S
    ELSE hi + 1

\* str.strip
strip(s) ==
    LET black == {i \in 1..Len(s) : s[i] \notin Whitespace}
        first == FirstIndex(1, Len(s), black)
    IN  IF first > Len(s)
        THEN <<>>
        ELSE SubSeq(s, first,
                    CHOOSE i \in first..Len(s) :
                        i \in black /\ \A j \in (i + 1)..Len(s) : j \notin black)

\* the separator occurs in the text at offset i
Occurs(text, separator, i) ==
    /\ i + Len(separator) - 1 <= Len(text)
    /\ \A k \in 1..Len(separator) : text[i + k - 1] = separator[k]

\* re.split finds the occurrences from left to right, none overlapping the
\* one found before it
RECURSIVE IsMatch(_, _, _)
IsMatch(text, separator, i) ==
    /\ Occurs(text, separator, i)
    /\ \A j \in (i - Len(separator) + 1)..(i - 1) :
           j < 1 \/ ~IsMatch(text, separator, j)

\* _split_text_with_regex(text, separator, keep_separator=True), without the
\* empty pieces: the offsets at which the pieces start (list(text) for the
\* separator "")
split_text_with_regex(text, separator) ==
    IF separator = <<>>
    THEN 1..Len(text)
    ELSE {i \in 1..Len(text) : i = 1 \/ IsMatch(text, separator, i)}

\* the offset after the last character of the piece that starts at i
PieceEnd(text, starts, i) ==
    FirstIndex(i + 1, Len(text), starts)

\* _join_docs with the separator "": the pieces from offset a up to (not
\* including) offset b, stripped; None (here no chunk) when nothing is left
join_docs(text, a, b) ==
    LET doc == strip(SubSeq(text, a, b - 1))
    IN  IF doc = <<>> THEN <<>> ELSE <<doc>>

\* mutant: after a chunk is made, _merge_splits starts the next one empty
merge_splits_keep_none(text, starts, size, overlap, s, i) == i

\* _merge_splits, the while loop after a chunk is made: pieces are dropped
\* from the front of current_doc (which starts at s) while it is longer than
\* chunk_overlap, or does not fit with the piece that comes next (at i); the
\* offset at which current_doc starts afterwards
merge_splits_keep(text, starts, size, overlap, s, i) ==
    LET kept == {j \in s..i :
                    /\ j \in starts \/ j = i
                    /\ i - j <= overlap
                    /\ PieceEnd(text, starts, i) - j <= size \/ i - j = 0}
    IN  FirstIndex(s, i, kept)

\* _merge_splits(splits, separator="") for the pieces from offset s up to
\* (not including) offset end, none of them as long as chunk_size: pieces are
\* collected in current_doc until the next one (at i) does not fit; then
\* current_doc is made a chunk and its tail is kept
RECURSIVE merge_splits(_, _, _, _, _, _)
merge_splits(text, starts, size, overlap, s, end) ==
    LET overflows == {i \in (s + 1)..(end - 1) :
                         i \in starts /\ PieceEnd(text, starts, i) - s > size}
        i == FirstIndex(s + 1, end - 1, overflows)
    IN  IF s >= end
        THEN <<>>
        ELSE IF i >= end
             THEN join_docs(text, s, end)
             ELSE join_docs(text, s, i)
                  \o merge_splits(text, starts, size, overlap,
                                  merge_splits_keep(text, starts, size, overlap, s, i),
                                  end)

\* _split_text, the choice of the separator: the first of the list that is
\* "" or occurs in the text (its position in the list), else the last
separator_index(text, separators) ==
    LET found == {k \in 1..Len(separators) :
                     \/ separators[k] = <<>>
                     \/ \E i \in 1..Len(text) : Occurs(text, separators[k], i)}
    IN  FirstIndex(1, Len(separators), found)

\* RecursiveCharacterTextSplitter._split_text(text, separators), and its
\* loop over the pieces from offset k on (split_pieces): the pieces shorter
\* than chunk_size are merged, a longer one is split at the separators that
\* remain, or is a chunk as it is when none remains
RECURSIVE split_text(_, _, _, _)
RECURSIVE split_pieces(_, _, _, _, _, _)
split_pieces(text, starts, new_separators, size, overlap, k) ==
    LET long == {j \in k..Len(text) :
                    j \in starts /\ PieceEnd(text, starts, j) - j >= size}
        j == FirstIndex(k, Len(text), long)
        s == SubSeq(text, j, PieceEnd(text, starts, j) - 1)
    IN  IF j > Len(text)
        THEN merge_splits(text, starts, size, overlap, k, Len(text) + 1)
        ELSE merge_splits(text, starts, size, overlap, k, j)
             \o (IF new_separators = <<>>
                 THEN <<s>>
                 ELSE split_text(s, new_separators, size, overlap))
             \o split_pieces(text, starts, new_separators, size, overlap,
                             PieceEnd(text, starts, j))

split_text(text, separators, size, overlap) ==
    LET k == separator_index(text, separators)
        separator == IF k > Len(separators) THEN separators[Len(separators)] ELSE separators[k]
        new_separators == IF k > Len(separators) \/ separator = <<>>
                          THEN <<>>
                          ELSE SubSeq(separators, k + 1, Len(separators))
    IN  split_pieces(text, split_text_with_regex(text, separator), new_separators,
                     size, overlap, 1)

(***************************************************************************)
(* create_vectorstore                                                      *)
(***************************************************************************)
\* mutant: create_vectorstore without the test of `not chunks`
create_vectorstore_unchecked(e, chunks, f) ==
    IF f = "FAISS"
    THEN Raises(e, "FAISS.from_documents", <<>>)
    ELSE Returns([e EXCEPT !.vectorstore =
                      FAISS_from_documents(FreshId(LiveIndexIds(e)), chunks)],
                 None, <<>>)

\* mutant: create_vectorstore adds the chunks to the index that exists
create_vectorstore_adding(e, chunks, f) ==
    IF chunks = <<>>
    THEN Raises(e, "ValueError: No chunks provided", <<>>)
    ELSE IF f = "FAISS"
         THEN Raises(e, "FAISS.from_documents", <<>>)
         ELSE Returns([e EXCEPT !.vectorstore =
                           FAISS_from_documents(
                               FreshId(LiveIndexIds(e)),
                               (IF e.vectorstore = None THEN <<>> ELSE e.vectorstore.docs)
                                   \o chunks)],
                      None, <<>>)

\* create_vectorstore (both classes): f = "FAISS" fails FAISS.from_documents
create_vectorstore(e, chunks, f) ==
    IF chunks = <<>>
    THEN Raises(e, "ValueError: No chunks provided", <<>>)
    ELSE IF f = "FAISS"
         THEN Raises(e, "FAISS.from_documents", <<>>)
         ELSE Returns([e EXCEPT !.vectorstore = FAISS_from_documents(FreshId(LiveIndexIds(e)), chunks)],
                      None, <<>>)

(***************************************************************************)
(* setup_chain                                                             *)
(***************************************************************************)
\* mutant: setup_chain keeps a memory that exists, as switch_model does
setup_chain_memory_kept(e) ==
    IF e.memory = None
    THEN [e EXCEPT !.memory = ConversationBufferMemory(FreshId(LiveMemoryIds(e)))]
    ELSE e

\* setup_chain, "Setup memory": self.memory becomes a new, empty memory
setup_chain_memory(e) ==
    [e EXCEPT !.memory = ConversationBufferMemory(FreshId(LiveMemoryIds(e)))]

\* setup_chain (both classes; they differ in k and in the temperature):
\* f = "llm" fails ChatOpenAI(...), f = "chain" fails from_llm(...)
setup_chain(e, f) ==
    IF e.vectorstore = None
    THEN Raises(e, "ValueError: Vectorstore not initialized", <<>>)
    ELSE IF f = "llm"
         THEN Raises(e, "ChatOpenAI", <<>>)
         ELSE LET e1 == [e EXCEPT !.llm = ChatOpenAI(e.model, get_temperature(e, e.model))]
                  e2 == setup_chain_memory(e1)
              IN  IF f = "chain"
                  THEN Raises(e2, "ConversationalRetrievalChain.from_llm", <<>>)
                  ELSE Returns([e2 EXCEPT !.chain =
                                    ConversationalRetrievalChain_from_llm(
                                        e2.llm, e2.vectorstore, retriever_k(e2), e2.memory)],
                               None, <<>>)

(***************************************************************************)
(* switch_model                                                            *)
(***************************************************************************)
\* mutant: switch_model without the rollback of self.model
RAGEngine_switch_rollback_missing(e, old_model) == e

\* RAGEngine.switch_model, "Rollback to old model if switch fails"
RAGEngine_switch_rollback(e, old_model) == [e EXCEPT !.model = old_model]

\* mutant: switch_model sets up a new memory, as setup_chain does
RAGEngine_switch_new_memory(e) ==
    [e EXCEPT !.memory = ConversationBufferMemory(FreshId(LiveMemoryIds(e)))]

\* RAGEngine.switch_model, "Ensure memory exists"
RAGEngine_switch_ensure_memory(e) ==
    IF e.memory = None
    THEN [e EXCEPT !.memory = ConversationBufferMemory(FreshId(LiveMemoryIds(e)))]
    ELSE e

\* RAGEngine.switch_model: f = "chat_llm" fails the first ChatOpenAI(...),
\* f = "llm" the second, f = "chain" fails from_llm(...)
RAGEngine_switch_model(e, new_model, f) ==
    LET old_model == e.model
        e0 == [e EXCEPT !.model = new_model]
        temperature == RAGEngine_get_temperature(new_model)
        rollback(x) == RAGEngine_switch_rollback(x, old_model)
    IN  IF f = "chat_llm"
        THEN Raises(rollback(e0), "ChatOpenAI", <<>>)
        ELSE LET e1 == [e0 EXCEPT !.chat_llm = ChatOpenAI(new_model, temperature)]
             IN  IF e1.vectorstore = None
                 THEN Returns(e1, None, <<>>)
                 ELSE IF f = "llm"
                      THEN Raises(rollback(e1), "ChatOpenAI", <<>>)
                      ELSE LET e2 == [e1 EXCEPT !.llm = ChatOpenAI(new_model, temperature)]
                               e3 == RAGEngine_switch_ensure_memory(e2)
                           IN  IF f = "chain"
                               THEN Raises(rollback(e3),
                                           "ConversationalRetrievalChain.from_llm", <<>>)
                               ELSE Returns([e3 EXCEPT !.chain =
                                                 ConversationalRetrievalChain_from_llm(
                                                     e3.llm, e3.vectorstore, RAGEngine_k,
                                                     e3.memory)],
                                            None, <<>>)

\* RAGEngineWithVision.switch_model: f = "llm" fails ChatOpenAI(...),
\* f = "chain" fails from_llm(...)
RAGEngineWithVision_switch_model(e, new_model, f) ==
    IF e.vectorstore = None
    THEN Raises(e, "ValueError: No documents processed yet", <<>>)
    ELSE LET temperature == RAGEngineWithVision_get_temperature(new_model)
         IN  IF f = "llm"
             THEN Raises(e, "ChatOpenAI", <<>>)
             ELSE LET e1 == [e EXCEPT !.llm = ChatOpenAI(new_model, temperature)]
                  IN  IF f = "chain"
                      THEN Raises(e1, "ConversationalRetrievalChain.from_llm", <<>>)
                      ELSE Returns([e1 EXCEPT
                                        !.chain = ConversationalRetrievalChain_from_llm(
                                                      e1.llm, e1.vectorstore,
                                                      RAGEngineWithVision_k, e1.memory),
                                        !.model = new_model],
                                   None, <<>>)

switch_model(e, new_model, f) ==
    IF e.class = "RAGEngine"
    THEN RAGEngine_switch_model(e, new_model, f)
    ELSE RAGEngineWithVision_switch_model(e, new_model, f)

(***************************************************************************)
(* ask_question                                                            *)
(***************************************************************************)
\* RAGEngine._init_chat_llm
RAGEngine_init_chat_llm(e) ==
    [e EXCEPT !.chat_llm = ChatOpenAI(e.model, RAGEngine_get_temperature(e.model))]

\* mutant: _chat_direct invokes the model a second time when the first
\* invocation fails
RAGEngine_chat_direct_retrying(e, message, f, answer) ==
    LET e1 == IF e.chat_llm = None THEN RAGEngine_init_chat_llm(e) ELSE e
        request == [component |-> "chat_llm", llm |-> e1.chat_llm, input |-> message]
    IN  IF f = "invoke"
        THEN Raises(e1, "chat_llm.invoke", <<request, request>>)
        ELSE Returns(e1, [answer |-> answer, source_documents |-> <<>>], <<request>>)

\* RAGEngine._chat_direct: one self.chat_llm.invoke(message); f = "invoke" fails it
RAGEngine_chat_direct(e, message, f, answer) ==
    LET e1 == IF e.chat_llm = None THEN RAGEngine_init_chat_llm(e) ELSE e
        request == [component |-> "chat_llm", llm |-> e1.chat_llm, input |-> message]
    IN  IF f = "invoke"
        THEN Raises(e1, "chat_llm.invoke", <<request>>)
        ELSE Returns(e1, [answer |-> answer, source_documents |-> <<>>], <<request>>)

\* the documents of docs at the positions hits, in the order of the index
RECURSIVE Pick(_, _, _)
Pick(docs, hits, i) ==
    IF i > Len(docs)
    THEN <<>>
    ELSE (IF i \in hits THEN <<docs[i]>> ELSE <<>>) \o Pick(docs, hits, i + 1)

Min(a, b) == IF a <= b THEN a ELSE b

\* the possible results of the retriever's similarity search: the sets of
\* positions of min(k, ntotal) documents of the index the retriever was built
\* over (which documents are nearest is the embedding's choice)
SearchHits(retriever) ==
    {hits \in SUBSET (1..Len(retriever.vectorstore.docs)) :
        Cardinality(hits) = Min(retriever.k, Len(retriever.vectorstore.docs))}

\* memory.save_context: the turn is added to the memory object
save_context(memory, question, answer) ==
    [memory EXCEPT !.turns = Append(@, [question |-> question, answer |-> answer])]

\* self.chain.invoke({"question": question}): a chain built with memory=None
\* lacks the input key chat_history and raises before any model request;
\* f = "invoke" fails the model request; on success the turn is saved to the
\* chain's memory object
chain_invoke(e, question, f, answer, hits) ==
    LET chain == e.chain
        request == [component |-> "chain", llm |-> chain.llm, input |-> question]
    IN  IF chain.memory = None
        THEN Raises(e, "ValueError: Missing some input keys", <<>>)
        ELSE IF f = "invoke"
             THEN Raises(e, "chain.invoke", <<request>>)
             ELSE LET m == save_context(chain.memory, question, answer)
                      e1 == [e EXCEPT !.chain.memory = m,
                                      !.memory = IF @ # None /\ @.id = m.id THEN m ELSE @]
                  IN  Returns(e1,
                              [answer |-> answer,
                               source_documents |->
                                   Pick(chain.retriever.vectorstore.docs, hits, 1)],
                              <<request>>)

\* RAGEngineWithVision.ask_question
RAGEngineWithVision_ask_question(e, question, f, answer, hits) ==
    IF e.chain = None
    THEN Raises(e, "ValueError: Chain not initialized", <<>>)
    ELSE chain_invoke(e, question, f, answer, hits)

\* mutant: RAGEngine.ask_question requires the chain, as RAGEngineWithVision does
RAGEngine_ask_question_requiring_chain(e, question, f, answer, hits) ==
    RAGEngineWithVision_ask_question(e, question, f, answer, hits)

\* RAGEngine.ask_question
RAGEngine_ask_question(e, question, f, answer, hits) ==
    IF e.chain = None
    THEN RAGEngine_chat_direct(e, question, f, answer)
    ELSE LET r == chain_invoke(e, question, f, answer, hits)
         IN  IF r.raised
             THEN r
             ELSE Returns(r.e,
                          [answer |-> r.value.answer,
                           source_documents |-> r.value.source_documents],
                          r.requests)

ask_question(e, question, f, answer, hits) ==
    IF e.class = "RAGEngine"
    THEN RAGEngine_ask_question(e, question, f, answer, hits)
    ELSE RAGEngineWithVision_ask_question(e, question, f, answer, hits)

(***************************************************************************)
(* clear_documents, get_stats                                              *)
(***************************************************************************)
\* mutant: clear_documents refuses an engine that has nothing to clear
clear_documents_requiring_index(e) ==
    IF e.vectorstore = None
    THEN Raises(e, "ValueError: No documents processed yet", <<>>)
    ELSE Returns([e EXCEPT !.vectorstore = None,
                           !.chain = None,
                           !.llm = None,
                           !.memory = None,
                           !.processed_documents = <<>>],
                 None, <<>>)

\* clear_documents (both classes)
clear_documents(e) ==
    Returns([e EXCEPT !.vectorstore = None,
                      !.chain = None,
                      !.llm = None,
                      !.memory = None,
                      !.processed_documents = <<>>],
            None, <<>>)

\* get_stats (the keys both classes report)
get_stats(e) ==
    [model |-> e.model,
     documents_processed |-> Len(e.processed_documents),
     vectorstore_size |-> IF e.vectorstore # None THEN Len(e.vectorstore.docs) ELSE 0,
     chain_ready |-> e.chain # None]

(***************************************************************************)
(* The state machine: one engine, called by one caller, one call at a      *)
(* time (the methods are synchronous and the engine is never shared).      *)
(***************************************************************************)
\* the engine with the ids of its live objects renamed: self.vectorstore and
\* self.memory get 1, an index or a memory only the chain still refers to 2
Normalize(e) ==
    LET index_id(v) == IF e.vectorstore = None \/ v.id = e.vectorstore.id THEN 1 ELSE 2
        memory_id(m) == IF e.memory = None \/ m.id = e.memory.id THEN 1 ELSE 2
        index(v) == IF v = None THEN None ELSE [v EXCEPT !.id = index_id(v)]
        memory(m) == IF m = None THEN None ELSE [m EXCEPT !.id = memory_id(m)]
    IN  [e EXCEPT !.vectorstore = index(@),
                  !.memory = memory(@),
                  !.chain = IF @ = None
                            THEN None
                            ELSE [@ EXCEPT !.retriever.vectorstore = index(@),
                                           !.memory = memory(@)]]

\* the record of the last call
Called(op, arg, r) == [op |-> op, arg |-> arg, raised |-> r.raised]

\* the chunk lists a caller passes to create_vectorstore
\* (none, fewer than k, more than k)
ChunkBatches(e) ==
    {<<>>, ChunksOf(a_txt, 1), ChunksOf(b_PDF, retriever_k(e) + 1)}

Init ==
    /\ \E class \in Classes, model \in Models : engine = new_engine(class, model)
    /\ ret = [op |-> "__init__", arg |-> None, raised |-> FALSE]
    /\ session = None

ProcessUploadedFile ==
    \E file_name \in Uploads :
        \E x \in IngestOutcomes(detect_file_type(file_name)) :
            LET r == process_uploaded_file(engine, UploadedFile(file_name), x)
            IN  /\ Len(r.e.processed_documents) <= MaxDocs
                /\ engine' = Normalize(r.e)
                /\ ret' = Called("process_uploaded_file", file_name, r)
                /\ UNCHANGED session

CreateVectorstore ==
    \E chunks \in ChunkBatches(engine), f \in {"none", "FAISS"} :
        LET r == create_vectorstore(engine, chunks, f)
        IN  /\ engine' = Normalize(r.e)
            /\ ret' = Called("create_vectorstore", chunks, r)
            /\ UNCHANGED session

SetupChain ==
    \E f \in {"none", "llm", "chain"} :
        LET r == setup_chain(engine, f)
        IN  /\ engine' = Normalize(r.e)
            /\ ret' = Called("setup_chain", None, r)
            /\ UNCHANGED session

SwitchModel ==
    \E new_model \in Models, f \in {"none", "chat_llm", "llm", "chain"} :
        LET r == switch_model(engine, new_model, f)
        IN  /\ engine' = Normalize(r.e)
            /\ ret' = Called("switch_model", new_model, r)
            /\ UNCHANGED session

\* the results a similarity search can have in the state of e
Hits(e) == IF e.chain = None THEN {{}} ELSE SearchHits(e.chain.retriever)

\* the memory of the chain of e holds at most MaxTurns turns
WithinTurns(e) ==
    e.chain # None /\ e.chain.memory # None => Len(e.chain.memory.turns) <= MaxTurns

AskQuestion ==
    \E question \in Questions, f \in {"none", "invoke"}, answer \in Answers :
        \E hits \in Hits(engine) :
            LET r == ask_question(engine, question, f, answer, hits)
            IN  /\ WithinTurns(r.e)
                /\ engine' = Normalize(r.e)
                /\ ret' = Called("ask_question", question, r)
                /\ UNCHANGED session

ClearDocuments ==
    LET r == clear_documents(engine)
    IN  /\ engine' = Normalize(r.e)
        /\ ret' = Called("clear_documents", None, r)
        /\ UNCHANGED session

Next ==
    \/ ProcessUploadedFile
    \/ CreateVectorstore
    \/ SetupChain
    \/ SwitchModel
    \/ AskQuestion
    \/ ClearDocuments

Spec == Init /\ [][Next]_vars

(***************************************************************************)
(* The application (app.py): st.session_state and the handlers of its      *)
(* buttons.  The application holds one RAGEngine; `session` is the rest of *)
(* st.session_state.  A handler runs to its end before the next one.       *)
(***************************************************************************)
\* longest batch of uploaded files, longest list of processed files
MaxBatch == 2
MaxListed == 2

\* the files a user of the application uploads (the file_uploader accepts
\* the listed types only)
AppUploads == {a_txt, b_PDF}

\* st.session_state after the first run of the script (rag_engine is `engine`)
new_session(selected_model) ==
    [chat_history |-> <<>>,
     document_processed |-> FALSE,
     processed_files |-> <<>>,
     current_model |-> selected_model,
     edit_mode |-> FALSE,
     edit_index |-> None]

\* the result of a handler: engine and session after it, and whether it
\* showed an error (st.error)
Handled(e, s, error) == [e |-> e, session |-> s, raised |-> error]

\* mutant: the Switch Model button records the selected model whether or
\* not switch_model raised
switch_model_switched_unguarded(r, s, selected_model) ==
    Handled(r.e, [s EXCEPT !.current_model = selected_model], r.raised)

\* the Switch Model button after switch_model (r)
switch_model_switched(r, s, selected_model) ==
    IF r.raised
    THEN Handled(r.e, s, TRUE)
    ELSE Handled(r.e, [s EXCEPT !.current_model = selected_model], FALSE)

\* the Switch Model button
switch_model_button(e, s, selected_model, f) ==
    switch_model_switched(switch_model(e, selected_model, f), s, selected_model)

\* the state of the loop of the Process Documents button
Batch(e, processed_files, all_chunks, raised) ==
    [e |-> e, processed_files |-> processed_files, all_chunks |-> all_chunks,
     raised |-> raised]

\* the body of the loop of the Process Documents button, r the result of
\* process_uploaded_file(uploaded_file): all_chunks.extend(chunks) and
\* processed_files.append(name), or the exception that ends the loop
process_batch_file(b, uploaded_file, r) ==
    IF b.raised
    THEN b
    ELSE IF r.raised
         THEN Batch(r.e, b.processed_files, b.all_chunks, TRUE)
         ELSE Batch(r.e, Append(b.processed_files, uploaded_file.name),
                    b.all_chunks \o r.value, FALSE)

\* `for uploaded_file in uploaded_files`, from the file at position i on
RECURSIVE process_batch(_, _, _, _)
process_batch(b, uploaded_files, xs, i) ==
    IF i > Len(uploaded_files) \/ b.raised
    THEN b
    ELSE process_batch(
             process_batch_file(b, uploaded_files[i],
                                process_uploaded_file(b.e, uploaded_files[i], xs[i])),
             uploaded_files, xs, i + 1)

\* the Process Documents button after setup_chain (r2)
process_documents_setup(r2, s) ==
    IF r2.raised
    THEN Handled(r2.e, s, TRUE)
    ELSE Handled(r2.e, [s EXCEPT !.document_processed = TRUE], FALSE)

\* the Process Documents button after create_vectorstore (r1)
process_documents_created(r1, s, f2) ==
    IF r1.raised
    THEN Handled(r1.e, s, TRUE)
    ELSE process_documents_setup(setup_chain(r1.e, f2), s)

\* the Process Documents button after the loop (b)
process_documents_batch(b, s, f1, f2) ==
    IF b.raised
    THEN Handled(b.e, [s EXCEPT !.processed_files = b.processed_files], TRUE)
    ELSE process_documents_created(create_vectorstore(b.e, b.all_chunks, f1),
                                   [s EXCEPT !.processed_files = b.processed_files], f2)

\* the Process Documents button: xs are the outcomes of the ingestion of
\* each file, f1 and f2 the failures of create_vectorstore and setup_chain
process_documents_button(e, s, uploaded_files, xs, f1, f2) ==
    process_documents_batch(
        process_batch(Batch(e, s.processed_files, <<>>, FALSE), uploaded_files, xs, 1),
        s, f1, f2)

\* the Reset button
reset_button(e, s) ==
    Handled(clear_documents(e).e,
            [s EXCEPT !.chat_history = <<>>,
                      !.document_processed = FALSE,
                      !.processed_files = <<>>],
            FALSE)

\* the batches a user uploads: one file, or several different files
Batches ==
    {files \in UNION {[1..n -> {UploadedFile(name) : name \in AppUploads}] : n \in 1..MaxBatch} :
        \A i, j \in 1..Len(files) : i # j => files[i] # files[j]}

\* the outcomes of the ingestion of one uploaded file of the type (the
\* files a user uploads load as at most one document of at most one chunk)
AppIngestOutcomes(file_type) ==
    {x \in IngestOutcomes(file_type) : x.load <= 1 /\ x.split <= 1}

\* the outcomes of the ingestions of the files of a batch
BatchOutcomes(files) ==
    {xs \in [1..Len(files) -> UNION {AppIngestOutcomes(detect_file_type(name)) :
                                        name \in AppUploads}] :
        \A i \in 1..Len(files) :
            xs[i] \in AppIngestOutcomes(detect_file_type(files[i].name))}

\* the failures of create_vectorstore and setup_chain in one handler
BuildFailures ==
    {<<"none", "none">>, <<"FAISS", "none">>, <<"none", "llm">>, <<"none", "chain">>}

\* the names of the files of a batch
Names(files) == [i \in 1..Len(files) |-> files[i].name]

InitApp ==
    /\ engine = RAGEngine_init(gpt_4o_mini)
    /\ session = new_session(gpt_4o_mini)
    /\ ret = [op |-> "__init__", arg |-> None, raised |-> FALSE]

SwitchModelButton ==
    \E selected_model \in Models, f \in {"none", "chat_llm", "llm", "chain"} :
        LET r == switch_model_button(engine, session, selected_model, f)
        IN  /\ selected_model # session.current_model
            /\ engine' = Normalize(r.e)
            /\ session' = r.session
            /\ ret' = Called("Switch Model", selected_model, r)

ProcessDocumentsButton ==
    \E uploaded_files \in Batches, f \in BuildFailures :
        \E xs \in BatchOutcomes(uploaded_files) :
            LET r == process_documents_button(engine, session, uploaded_files, xs,
                                              f[1], f[2])
            IN  /\ ~session.document_processed
                /\ Len(r.session.processed_files) <= MaxListed
                /\ Len(r.e.processed_documents) <= MaxListed
                /\ engine' = Normalize(r.e)
                /\ session' = r.session
                /\ ret' = Called("Process Documents", Names(uploaded_files), r)

ResetButton ==
    LET r == reset_button(engine, session)
    IN  /\ session.document_processed
        /\ engine' = Normalize(r.e)
        /\ session' = r.session
        /\ ret' = Called("Reset", None, r)

NextApp ==
    \/ SwitchModelButton
    \/ ProcessDocumentsButton
    \/ ResetButton

SpecApp == InitApp /\ [][NextApp]_vars

(***************************************************************************)
(* The chat of the application (app.py): the messages of chat_history, the *)
(* Edit, Send, Cancel and Retry buttons drawn with them, and the chat      *)
(* input.  idx counts from 0 as in the code: chat_history[idx] of the code *)
(* is chat_history[idx + 1] here, and chat_history[:idx] is the first idx  *)
(* messages.                                                               *)
(***************************************************************************)
\* longest chat history a handler may leave
MaxMessages == 4

\* the texts a user types into the chat input or the edit area
Prompts == Questions

\* {"role": "user", "content": ...}
user_message(content) == [role |-> "user", content |-> content]

\* {"role": "assistant", "content": response["answer"], "sources": ...}: the
\* sources are drawn with the message and read by no handler
assistant_message(content) == [role |-> "assistant", content |-> content]

\* `for idx, message in enumerate(st.session_state.chat_history)`
Indices(s) == 0..(Len(s.chat_history) - 1)

\* `st.session_state.edit_mode and st.session_state.edit_index == idx`: the
\* message is drawn as the edit area with Send and Cancel
Editing(s, idx) == s.edit_mode /\ s.edit_index = idx

\* the Edit button is drawn with every user message that is not being edited
EditRendered(s, idx) ==
    /\ idx \in Indices(s)
    /\ ~Editing(s, idx)
    /\ s.chat_history[idx + 1].role = "user"

\* the Retry button is drawn with every assistant message that is not being
\* edited
RetryRendered(s, idx) ==
    /\ idx \in Indices(s)
    /\ ~Editing(s, idx)
    /\ s.chat_history[idx + 1].role = "assistant"

\* Send and Cancel are drawn with the message that is being edited
SendRendered(s, idx) == idx \in Indices(s) /\ Editing(s, idx)

\* the chat input is drawn `if not st.session_state.edit_mode`
ChatInputRendered(s) == ~s.edit_mode

\* the try around ask_question (r) in the handlers of Send, Retry and the chat
\* input: the answer is appended, or the error is shown
append_response(r, s) ==
    IF r.raised
    THEN Handled(r.e, s, TRUE)
    ELSE Handled(r.e,
                 [s EXCEPT !.chat_history = Append(@, assistant_message(r.value.answer))],
                 FALSE)

\* the Edit button of the message at idx
edit_button(e, s, idx) ==
    Handled(e, [s EXCEPT !.edit_mode = TRUE, !.edit_index = idx], FALSE)

\* the Cancel button
cancel_button(e, s) ==
    Handled(e, [s EXCEPT !.edit_mode = FALSE, !.edit_index = None], FALSE)

\* mutant: the Send button cuts the history at the edit point and appends no
\* edited message
send_button_edited_dropped(s, idx, edited_text) ==
    [s EXCEPT !.edit_mode = FALSE,
              !.edit_index = None,
              !.chat_history = SubSeq(@, 1, idx)]

\* the Send button before ask_question: edit mode is left, the history is cut
\* at the edit point and the edited message is appended
send_button_edited(s, idx, edited_text) ==
    [s EXCEPT !.edit_mode = FALSE,
              !.edit_index = None,
              !.chat_history = Append(SubSeq(@, 1, idx), user_message(edited_text))]

\* the Send button of the message at idx
send_button(e, s, idx, edited_text, f, answer, hits) ==
    append_response(ask_question(e, edited_text, f, answer, hits),
                    send_button_edited(s, idx, edited_text))

\* the Retry button of the message at idx: without a user message before it
\* the click does nothing
retry_button(e, s, idx, f, answer, hits) ==
    IF idx > 0 /\ s.chat_history[idx].role = "user"
    THEN append_response(ask_question(e, s.chat_history[idx].content, f, answer, hits),
                         [s EXCEPT !.chat_history = SubSeq(@, 1, idx)])
    ELSE Handled(e, s, FALSE)

\* the chat input
chat_input(e, s, prompt, f, answer, hits) ==
    append_response(ask_question(e, prompt, f, answer, hits),
                    [s EXCEPT !.chat_history = Append(@, user_message(prompt))])

\* the positions a button can have in the longest history
Positions == 0..(MaxMessages - 1)

\* the batch of the chat sessions: one text file
ChatBatch == <<UploadedFile(a_txt)>>

EditButton ==
    \E idx \in Positions :
        LET r == edit_button(engine, session, idx)
        IN  /\ EditRendered(session, idx)
            /\ engine' = Normalize(r.e)
            /\ session' = r.session
            /\ ret' = Called("Edit", idx, r)

CancelButton ==
    \E idx \in Positions :
        LET r == cancel_button(engine, session)
        IN  /\ SendRendered(session, idx)
            /\ engine' = Normalize(r.e)
            /\ session' = r.session
            /\ ret' = Called("Cancel", idx, r)

SendButton ==
    \E idx \in Positions, edited_text \in Prompts, f \in {"none", "invoke"},
       answer \in Answers :
        \E hits \in Hits(engine) :
            LET r == send_button(engine, session, idx, edited_text, f, answer, hits)
            IN  /\ SendRendered(session, idx)
                /\ WithinTurns(r.e)
                /\ engine' = Normalize(r.e)
                /\ session' = r.session
                /\ ret' = Called("Send", idx, r)

RetryButton ==
    \E idx \in Positions, f \in {"none", "invoke"}, answer \in Answers :
        \E hits \in Hits(engine) :
            LET r == retry_button(engine, session, idx, f, answer, hits)
            IN  /\ RetryRendered(session, idx)
                /\ WithinTurns(r.e)
                /\ engine' = Normalize(r.e)
                /\ session' = r.session
                /\ ret' = Called("Retry", idx, r)

ChatInput ==
    \E prompt \in Prompts, f \in {"none", "invoke"}, answer \in Answers :
        \E hits \in Hits(engine) :
            LET r == chat_input(engine, session, prompt, f, answer, hits)
            IN  /\ ChatInputRendered(session)
                /\ Len(r.session.chat_history) <= MaxMessages
                /\ WithinTurns(r.e)
                /\ engine' = Normalize(r.e)
                /\ session' = r.session
                /\ ret' = Called("chat_input", prompt, r)

\* the Process Documents button on the batch of the chat sessions
ProcessChatBatch ==
    \E f \in BuildFailures :
        \E xs \in BatchOutcomes(ChatBatch) :
            LET r == process_documents_button(engine, session, ChatBatch, xs, f[1], f[2])
            IN  /\ ~session.document_processed
                /\ Len(r.session.processed_files) <= MaxListed
                /\ Len(r.e.processed_documents) <= MaxListed
                /\ engine' = Normalize(r.e)
                /\ session' = r.session
                /\ ret' = Called("Process Documents", Names(ChatBatch), r)

NextChat ==
    \/ ChatInput
    \/ EditButton
    \/ SendButton
    \/ CancelButton
    \/ RetryButton
    \/ ProcessChatBatch
    \/ ResetButton

SpecChat == InitApp /\ [][NextChat]_vars

(***************************************************************************)
(* Ingestion on its own: the loader and process_uploaded_file applied to   *)
(* every file name of the model, on an engine of either class.             *)
(***************************************************************************)
\* the path of the temporary file process_uploaded_file makes for a file
TmpPathOf(file_name) == NamedTemporaryFile_name(<<".">> \o detect_file_type(file_name))

\* the paths _load_document_by_type is called with: the temporary files of
\* process_uploaded_file, and the files themselves (process_document)
Paths == {TmpPathOf(file_name) : file_name \in FileNames} \cup FileNames

\* the outcomes of the external calls of one _load_document_by_type
LoadCalls(file_type) == {x \in IngestOutcomes(file_type) : x.tmp = "ok" /\ x.split = 1}

\* the record of the last call, with the value it returned
CalledFor(op, arg, r) == [op |-> op, arg |-> arg, raised |-> r.raised, value |-> r.value]

InitIngest ==
    /\ \E class \in Classes, model \in Models : engine = new_engine(class, model)
    /\ ret = [op |-> "__init__", arg |-> None, raised |-> FALSE, value |-> None]
    /\ session = None

LoadDocumentByType ==
    \E file_path \in Paths :
        \E x \in LoadCalls(detect_file_type(file_path)) :
            LET r == load_document_by_type(engine.class, file_path, x)
            IN  /\ ret' = CalledFor("_load_document_by_type", file_path, r)
                /\ UNCHANGED <<engine, session>>

IngestFile ==
    \E file_name \in FileNames :
        \E x \in IngestOutcomes(detect_file_type(file_name)) :
            LET r == process_uploaded_file(engine, UploadedFile(file_name), x)
            IN  /\ Len(r.e.processed_documents) <= MaxDocs
                /\ engine' = Normalize(r.e)
                /\ ret' = CalledFor("process_uploaded_file", file_name, r)
                /\ UNCHANGED session

\* the outcomes of the external calls of one process_document
DocumentCalls(file_type) == {x \in IngestOutcomes(file_type) : x.tmp = "ok"}

ProcessDocument ==
    /\ engine.class = "RAGEngine"
    /\ \E file_path \in Paths :
           \E x \in DocumentCalls(detect_file_type(file_path)) :
               LET r == RAGEngine_process_document(engine, file_path, x)
               IN  /\ Len(r.e.processed_documents) <= MaxDocs
                   /\ engine' = Normalize(r.e)
                   /\ ret' = CalledFor("process_document", file_path, r)
                   /\ UNCHANGED session

NextIngest ==
    \/ LoadDocumentByType
    \/ IngestFile
    \/ ProcessDocument

SpecIngest == InitIngest /\ [][NextIngest]_vars

(***************************************************************************)
(* The splitter on its own: the text of a section is drawn from texts      *)
(* around the sizes the splitter is configured with, and split as the      *)
(* engine's class configures the splitter.                                 *)
(***************************************************************************)
\* n characters without whitespace, no two neighbours alike, of the first
\* (shift 0) or of the second (shift 7) seven letters
Word(n, shift) == [i \in 1..n |-> LowerCase[(i % 7) + 1 + shift]]

\* the lengths of the sections without any separator
WordLengths == {0, 1, 200, 999, 1000, 1001, 1200, 1201, 1800, 2000, 2100, 3000}

\* the lengths of the paragraphs, lines or words of the sections made of two
ParagraphLengths == {100, 900, 1500}

\* a section of 300 words of nine letters
Prose == [i \in 1..3000 |-> IF i % 10 = 0 THEN " " ELSE LowerCase[(i % 7) + 1]]

\* the texts of the sections
Texts ==
    {Word(n, 0) : n \in WordLengths}
    \cup {Word(nsm[1], 0) \o nsm[2] \o Word(nsm[3], 7) :
              nsm \in ParagraphLengths \X {<<"\n", "\n">>, <<"\n">>, <<" ">>} \X ParagraphLengths}
    \cup {Prose}

InitSplit ==
    /\ \E class \in Classes : engine = new_engine(class, gpt_4o_mini)
    /\ \E text \in Texts :
           ret = [op |-> "page_content", arg |-> text, raised |-> FALSE, value |-> None]
    /\ session = None

\* text_splitter.split_text(page_content), called by split_documents for
\* every document
SplitText ==
    /\ ret.op = "page_content"
    /\ ret' = [op |-> "split_text", arg |-> ret.arg, raised |-> FALSE,
               value |-> split_text(ret.arg, Separators,
                                    chunk_size(engine), chunk_overlap(engine))]
    /\ UNCHANGED <<engine, session>>

NextSplit == SplitText

SpecSplit == InitSplit /\ [][NextSplit]_vars

(***************************************************************************)
(* Vocabulary of the statements.                                           *)
(***************************************************************************)
\* the inputs the statements range over
SwitchFailures == {"none", "chat_llm", "llm", "chain"}
SetupFailures == {"none", "llm", "chain"}
AskFailures == {"none", "invoke"}
CreateFailures == {"none", "FAISS"}

\* the model-calling components the engine holds
Components(e) ==
    (IF e.chat_llm = None THEN {} ELSE {e.chat_llm})
    \cup (IF e.llm = None THEN {} ELSE {e.llm})
    \cup (IF e.chain = None THEN {} ELSE {e.chain.llm})

\* every component of e is bound to model and to model's temperature
BoundTo(e, model) ==
    \A c \in Components(e) :
        c.model = model /\ c.temperature = get_temperature(e, model)

\* the documents of a list, as a set
Range(seq) == {seq[i] : i \in 1..Len(seq)}

(***************************************************************************)
(* C1..C10                                                                 *)
(***************************************************************************)
\* C1: in every reachable state the conversational memory and the vector
\* index are both absent or both present.
C1_MemoryIffIndex ==
    (engine.memory = None) <=> (engine.vectorstore = None)

\* C2: after a switch_model(new_model) that fails, every model-calling
\* component (chat_llm, llm, chain) is still bound to the model that was
\* current before the call (given that every component was bound to it before).
C2_FailedSwitchRebindsNothing ==
    \A new_model \in Models, f \in SwitchFailures :
        LET r == switch_model(engine, new_model, f)
        IN  r.raised /\ BoundTo(engine, engine.model) => BoundTo(r.e, engine.model)

\* C3: a switch_model(new_model) whose binding fails raises (the failure of a
\* call it reached is never swallowed) and leaves the current model name as it
\* was before the call, in NoIndex and in Indexed state, in both classes.
C3_FailedSwitchKeepsModel ==
    \A new_model \in Models, f \in SwitchFailures :
        LET r == switch_model(engine, new_model, f)
        IN  /\ r.raised \/ r = switch_model(engine, new_model, "none")
            /\ r.raised => r.e.model = engine.model

\* C3, witness: a switch to another model has failed on an engine with an index.
C3_Witness ==
    /\ ret.op = "switch_model"
    /\ ret.raised
    /\ ret.arg # engine.model
    /\ engine.vectorstore # None

\* C4: a successful switch_model(new_model) with index and memory present sets
\* the current model to new_model, leaves self.vectorstore and self.memory the
\* same objects with the same contents, ingests nothing, and binds the new
\* chain to exactly these two objects.
C4_SwitchKeepsIndexAndMemory ==
    \A new_model \in Models, f \in SwitchFailures :
        LET r == switch_model(engine, new_model, f)
        IN  ~r.raised /\ engine.vectorstore # None /\ engine.memory # None =>
                /\ r.e.model = new_model
                /\ r.e.vectorstore = engine.vectorstore
                /\ r.e.memory = engine.memory
                /\ r.e.processed_documents = engine.processed_documents
                /\ r.e.chain # None
                /\ r.e.chain.retriever.vectorstore = engine.vectorstore
                /\ r.e.chain.memory = engine.memory
                /\ r.e.chain.llm.model = new_model

\* C4, witness: a switch has succeeded on an engine whose memory holds turns.
C4_Witness ==
    /\ ret.op = "switch_model"
    /\ ~ret.raised
    /\ engine.model = ret.arg
    /\ engine.vectorstore # None
    /\ engine.memory # None
    /\ Len(engine.memory.turns) = MaxTurns
    /\ engine.chain # None
    /\ engine.chain.memory = engine.memory

\* C5: when the model call of ask_question fails, the call raises, the model
\* was invoked exactly once, and the engine is as it was before the call.
C5_FailedAskChangesNothing ==
    \A question \in Questions, f \in AskFailures, answer \in Answers :
        \A hits \in Hits(engine) :
            LET r == ask_question(engine, question, f, answer, hits)
            IN  /\ f = "invoke" => r.raised
                /\ r.raised /\ r.requests # <<>> =>
                       /\ Len(r.requests) = 1
                       /\ r.e = engine

\* C5, witness: a question has failed on an engine that answers by retrieval
\* and whose memory holds a turn.
C5_Witness ==
    /\ ret.op = "ask_question"
    /\ ret.raised
    /\ engine.chain # None
    /\ engine.chain.memory # None
    /\ Len(engine.chain.memory.turns) > 0

\* C6: RAGEngine without an index answers every successful ask_question(q) by
\* one request to chat_llm whose only content is q, with no sources.
C6_NoIndexChatsDirectly ==
    engine.class = "RAGEngine" /\ engine.vectorstore = None =>
        \A question \in Questions, f \in AskFailures, answer \in Answers :
            \A hits \in Hits(engine) :
                LET r == ask_question(engine, question, f, answer, hits)
                IN  /\ f = "none" => ~r.raised
                    /\ ~r.raised =>
                           /\ r.value.source_documents = <<>>
                           /\ r.value.answer = answer
                           /\ r.requests = <<[component |-> "chat_llm",
                                              llm |-> engine.chat_llm,
                                              input |-> question]>>

\* C6, witness: RAGEngine has answered a question with no index.
C6_Witness ==
    /\ engine.class = "RAGEngine"
    /\ ret.op = "ask_question"
    /\ ~ret.raised
    /\ engine.vectorstore = None

\* C7: RAGEngineWithVision without an index answers ask_question(q) with no
\* sources instead of raising.
C7_VisionNoIndexAnswers ==
    engine.class = "RAGEngineWithVision" /\ engine.vectorstore = None =>
        \A question \in Questions, answer \in Answers :
            \A hits \in Hits(engine) :
                LET r == ask_question(engine, question, "none", answer, hits)
                IN  ~r.raised /\ r.value.source_documents = <<>>

\* C8: with a chain present, every successful ask_question(q) returns at most
\* k sources, all of them chunks of the current index self.vectorstore, and
\* appends exactly one turn to the memory self.memory.
C8_SourcesFromCurrentIndex ==
    engine.chain # None =>
        \A question \in Questions, answer \in Answers :
            \A hits \in Hits(engine) :
                LET r == ask_question(engine, question, "none", answer, hits)
                IN  ~r.raised =>
                        /\ Len(r.value.source_documents) <= retriever_k(engine)
                        /\ engine.chain.retriever.k = retriever_k(engine)
                        /\ Range(r.value.source_documents) \subseteq
                               Range(engine.vectorstore.docs)
                        /\ engine.memory # None
                        /\ r.e.memory.turns =
                               Append(engine.memory.turns,
                                      [question |-> question, answer |-> answer])

C10_EmptyCreateRaises ==
    \A f \in CreateFailures :
        LET r == create_vectorstore(engine, <<>>, f)
        IN  r.raised /\ r.e = engine

\* C10, witness: create_vectorstore was called with no chunks and raised on
\* an engine that has an index.
C10_Witness ==
    /\ ret.op = "create_vectorstore"
    /\ ret.arg = <<>>
    /\ ret.raised
    /\ engine.vectorstore # None
    /\ engine.chain # None

(***************************************************************************)
(* C11..C20                                                                *)
(***************************************************************************)
\* C11: the answer path of ask_question (direct chat while self.chain is
\* None, retrieval otherwise) changes from direct chat to retrieval only in an
\* index-build call (create_vectorstore, setup_chain) and from retrieval to
\* direct chat only in clear_documents.
C11_PathChangesOnlyByBuildOrClear ==
    [][/\ (engine.chain = None /\ engine'.chain # None) =>
              ret'.op \in {"create_vectorstore", "setup_chain"}
       /\ (engine.chain # None /\ engine'.chain = None) =>
              ret'.op = "clear_documents"]_vars

\* C12: clear_documents returns, discards index, memory, chain and the list
\* of processed documents (get_stats: 0 documents, size 0, not ready), keeps
\* the model name, and leaves a chat component bound to the current model, so
\* that the next ask_question is answered by direct chat.
C12_ClearResetsToNoIndex ==
    LET r == clear_documents(engine)
    IN  /\ ~r.raised
        /\ r.e.vectorstore = None
        /\ r.e.memory = None
        /\ r.e.chain = None
        /\ r.e.processed_documents = <<>>
        /\ get_stats(r.e) = [model |-> engine.model,
                             documents_processed |-> 0,
                             vectorstore_size |-> 0,
                             chain_ready |-> FALSE]
        /\ r.e.model = engine.model
        /\ r.e.chat_llm # None
        /\ r.e.chat_llm = ChatOpenAI(r.e.model, get_temperature(r.e, r.e.model))
        /\ \A question \in Questions, answer \in Answers :
               LET r2 == ask_question(r.e, question, "none", answer, {})
               IN  /\ ~r2.raised
                   /\ r2.value.source_documents = <<>>
                   /\ Len(r2.requests) = 1
                   /\ r2.requests[1].component = "chat_llm"

\* C13, as claimed: clear_documents in a state with no index raises no error
\* and leaves every attribute of the engine as it was.
C13_ClearInNoIndexChangesNothing ==
    engine.vectorstore = None /\ engine.memory = None =>
        LET r == clear_documents(engine)
        IN  ~r.raised /\ r.e = engine

\* C13, amended: clear_documents never raises; a second clear_documents in a
\* row leaves every attribute of the engine as the first left it; in a state
\* with no index it changes nothing but the list of processed documents,
\* which it empties.
C13_ClearIdempotent ==
    LET r == clear_documents(engine)
        r2 == clear_documents(r.e)
    IN  /\ ~r.raised
        /\ ~r2.raised
        /\ r2.e = r.e
        /\ engine.vectorstore = None =>
               r.e = [engine EXCEPT !.processed_documents = <<>>]

\* C13, witness: clear_documents has returned and left the engine with no
\* index (the state in which the second call in a row runs).
C13_Witness ==
    /\ ret.op = "clear_documents"
    /\ ~ret.raised
    /\ engine.vectorstore = None
    /\ engine.memory = None
    /\ engine.processed_documents = <<>>

\* C14: process_uploaded_file, whether it returns chunks, returns nothing or
\* raises, leaves index, memory, chain and model (and every other attribute
\* but the list of processed documents) as they were.
C14_IngestionChangesOnlyTheList ==
    \A file_name \in FileNames :
        \A x \in IngestOutcomes(detect_file_type(file_name)) :
            LET r == process_uploaded_file(engine, UploadedFile(file_name), x)
            IN  /\ r.e.vectorstore = engine.vectorstore
                /\ r.e.memory = engine.memory
                /\ r.e.chain = engine.chain
                /\ r.e.model = engine.model
                /\ r.e = [engine EXCEPT !.processed_documents = r.e.processed_documents]

\* C14, witness: a file has been processed on an engine that answers by
\* retrieval and whose memory holds a turn.
C14_Witness ==
    /\ ret.op = "process_uploaded_file"
    /\ ~ret.raised
    /\ engine.processed_documents # <<>>
    /\ engine.vectorstore # None
    /\ engine.chain # None
    /\ engine.memory # None
    /\ Len(engine.memory.turns) > 0

\* C15: a process_uploaded_file(file) that returns has appended the name of
\* the file once to the list of processed documents, also when it returns no
\* chunks; one that raises has appended nothing.
C15_ReturnAppendsName ==
    \A file_name \in FileNames :
        \A x \in IngestOutcomes(detect_file_type(file_name)) :
            LET r == process_uploaded_file(engine, UploadedFile(file_name), x)
            IN  r.e.processed_documents =
                    IF r.raised
                    THEN engine.processed_documents
                    ELSE Append(engine.processed_documents, file_name)

\* C16: on every exit path of process_uploaded_file, no temporary file the
\* call created exists when the call returns or raises.
C16_NoTemporaryFileLeft ==
    \A file_name \in FileNames :
        \A x \in IngestOutcomes(detect_file_type(file_name)) :
            process_uploaded_file(engine, UploadedFile(file_name), x).tmp_files = 0

\* the chunks of the files of a batch whose ingestion returns, each file
\* ingested on its own, from the file at position i on
RECURSIVE ChunksOfIngested(_, _, _, _)
ChunksOfIngested(e, uploaded_files, xs, i) ==
    IF i > Len(uploaded_files)
    THEN <<>>
    ELSE LET r == process_uploaded_file(e, uploaded_files[i], xs[i])
         IN  (IF r.raised THEN <<>> ELSE r.value)
             \o ChunksOfIngested(r.e, uploaded_files, xs, i + 1)

\* C17: in a batch of the Process Documents button, a file whose ingestion
\* fails (an error placeholder, no chunks, or process_uploaded_file raising)
\* does not keep the other files from being ingested: when the index and the
\* chain can be built, the index is built over the chunks of the files whose
\* ingestion returned chunks.
C17_FailedFileKeepsBatch ==
    ~session.document_processed =>
        \A uploaded_files \in Batches :
            \A xs \in BatchOutcomes(uploaded_files) :
                LET r == process_documents_button(engine, session, uploaded_files, xs,
                                                  "none", "none")
                    chunks == ChunksOfIngested(engine, uploaded_files, xs, 1)
                IN  chunks # <<>> =>
                        /\ ~r.raised
                        /\ r.session.document_processed
                        /\ r.e.vectorstore # None
                        /\ r.e.vectorstore.docs = chunks
                        /\ r.e.chain # None
                        /\ r.e.chain.retriever.vectorstore = r.e.vectorstore

\* the file type is an image type of the class
IsImage(class, file_type) ==
    IF class = "RAGEngine"
    THEN file_type \in RAGEngine_ImageTypes
    ELSE RAGEngineWithVision_is_image_file(file_type)

\* the file type has a branch of its own in _load_document_by_type
Recognized(class, file_type) ==
    file_type \in LoaderTypes \/ IsImage(class, file_type)

\* the loader (or the open of the image file) raises in the call
LoadFails(class, file_type, x) ==
    /\ x.load = Raise
    /\ class = "RAGEngine" /\ file_type \in RAGEngine_ImageTypes => x.image_support

\* the request to the vision model is made and fails in the call
VisionFails(class, file_type, x) ==
    /\ class = "RAGEngineWithVision"
    /\ RAGEngineWithVision_is_image_file(file_type)
    /\ x.load # Raise
    /\ x.vision = "raise"

C20_SectionsNameTheUpload ==
    \A file_name \in FileNames :
        \A x \in LoadCalls(detect_file_type(file_name)) :
            LET file_type == detect_file_type(file_name)
                r == load_document_by_type(engine.class, TmpPathOf(file_name), x)
            IN  Recognized(engine.class, file_type)
                /\ ~(engine.class = "RAGEngineWithVision"
                     /\ RAGEngineWithVision_is_image_file(file_type))
                =>  /\ ~r.raised
                    /\ Len(r.value) >= 1
                    /\ \A i \in 1..Len(r.value) :
                           /\ r.value[i].metadata.source = file_name
                           /\ r.value[i].metadata.source # TmpPathOf(file_name)
                           /\ r.value[i].metadata.source # basename(TmpPathOf(file_name))

(***************************************************************************)
(* C21..C30                                                                *)
(***************************************************************************)
\* C21: every chunk an ingestion entry point returns has metadata.source equal
\* to the name of the original file: the name of the upload for
\* process_uploaded_file, the name of the file at the path for
\* process_document; for every file type and every outcome of the loader.
C21_ChunksNameTheOriginal ==
    /\ \A file_name \in FileNames :
           \A x \in IngestOutcomes(detect_file_type(file_name)) :
               LET r == process_uploaded_file(engine, UploadedFile(file_name), x)
               IN  ~r.raised =>
                       \A i \in 1..Len(r.value) : r.value[i].metadata.source = file_name
    /\ engine.class = "RAGEngine" =>
           \A file_path \in Paths :
               \A x \in DocumentCalls(detect_file_type(file_path)) :
                   LET r == RAGEngine_process_document(engine, file_path, x)
                   IN  ~r.raised =>
                           \A i \in 1..Len(r.value) :
                               r.value[i].metadata.source = basename(file_path)

\* C22: switch_model(new_model) on an engine without an index, when no call it
\* makes fails, returns, makes new_model the current model and leaves the
\* engine with a model-calling component, every one bound to new_model with
\* new_model's temperature; in both classes.
C22_SwitchInNoIndexSucceeds ==
    engine.vectorstore = None =>
        \A new_model \in Models :
            LET r == switch_model(engine, new_model, "none")
            IN  /\ ~r.raised
                /\ r.e.model = new_model
                /\ Components(r.e) # {}
                /\ BoundTo(r.e, new_model)

\* the model names of the selectbox of the UI (one or more of every family)
available_models ==
    {<<"g", "p", "t", "-", "5">>,
     <<"g", "p", "t", "-", "5", "-", "m", "i", "n", "i">>,
     <<"g", "p", "t", "-", "4", "o">>,
     <<"g", "p", "t", "-", "4", "o", "-", "m", "i", "n", "i">>,
     <<"o", "1">>,
     <<"o", "1", "-", "m", "i", "n", "i">>,
     <<"o", "3", "-", "m", "i", "n", "i">>,
     <<"g", "p", "t", "-", "4", "-", "t", "u", "r", "b", "o">>,
     <<"g", "p", "t", "-", "4">>,
     <<"g", "p", "t", "-", "3", ".", "5", "-", "t", "u", "r", "b", "o">>}

\* the prefixes of the reasoning family, "o-Series (Reasoning)"
ReasoningPrefixes == {<<"o", "1">>, <<"o", "3">>}

\* the temperature table: reasoning family 1.0, gpt-5 0.8, every other name
\* 0.7 (in tenths)
TemperatureTable(model_name) ==
    IF \E prefix \in ReasoningPrefixes : startswith(model_name, prefix)
    THEN 10
    ELSE IF startswith(model_name, <<"g", "p", "t", "-", "5">>)
         THEN 8
         ELSE 7

\* C24: the temperature a component is bound with is the temperature of the
\* table for the model it is bound to: _get_temperature gives the table's
\* value for every model name, and every component the engine holds
\* (chat_llm, llm, the chain's llm) has the table's value of its own model.
C24_TemperatureFollowsTable ==
    /\ \A model_name \in available_models \cup Models :
           get_temperature(engine, model_name) = TemperatureTable(model_name)
    /\ \A c \in Components(engine) : c.temperature = TemperatureTable(c.model)

\* C23: a create_vectorstore(chunks) that returns on an engine that has an
\* index makes self.vectorstore a new index that holds exactly the given
\* chunks, in their order, whatever the previous index held; get_stats then
\* reports the number of the given chunks as the size of the index.
C23_CreateReplacesIndex ==
    engine.vectorstore # None =>
        \A chunks \in ChunkBatches(engine), f \in CreateFailures :
            LET r == create_vectorstore(engine, chunks, f)
            IN  ~r.raised =>
                    /\ r.e.vectorstore # None
                    /\ r.e.vectorstore.id # engine.vectorstore.id
                    /\ r.e.vectorstore.docs = chunks
                    /\ get_stats(r.e).vectorstore_size = Len(chunks)

\* C23, witness: create_vectorstore has returned on an engine whose chain
\* still holds the index that was there before, with chunks of another file.
C23_Witness ==
    /\ ret.op = "create_vectorstore"
    /\ ~ret.raised
    /\ engine.chain # None
    /\ engine.chain.retriever.vectorstore.id # engine.vectorstore.id
    /\ engine.chain.retriever.vectorstore.docs # engine.vectorstore.docs
    /\ engine.vectorstore.docs = ret.arg

\* the sections the ingestion of an upload gets: the loaded documents, or
\* the one description of the vision model
SectionsOf(e, file_name, x) ==
    IF e.class = "RAGEngineWithVision"
       /\ RAGEngineWithVision_is_image_file(detect_file_type(file_name))
    THEN <<RAGEngineWithVision_process_image_with_vision(file_name, x)>>
    ELSE load_document_by_type(e.class, TmpPathOf(file_name), x).value

\* C25: the ingestion of a file of an image type of the class, when it
\* returns, returns one chunk for every section it got: no section of an
\* image is split, whatever the length of its text.
C25_ImageSectionsNotSplit ==
    \A file_name \in FileNames :
        \A x \in IngestOutcomes(detect_file_type(file_name)) :
            LET r == process_uploaded_file(engine, UploadedFile(file_name), x)
            IN  IsImage(engine.class, detect_file_type(file_name))
                /\ x.tmp = "ok" /\ ~r.raised
                =>  Len(r.value) = Len(SectionsOf(engine, file_name, x))

\* C26: when the request to the vision model fails, _process_image_with_vision
\* returns one section of kind image with the could-not-process text and the
\* failure in metadata.error, and the ingestion of the image returns that
\* section as its one chunk and records the name of the file.
C26_VisionFailureIsSwallowed ==
    engine.class = "RAGEngineWithVision" =>
        \A file_name \in FileNames :
            \A x \in IngestOutcomes(detect_file_type(file_name)) :
                LET doc == RAGEngineWithVision_process_image_with_vision(file_name, x)
                    r == process_uploaded_file(engine, UploadedFile(file_name), x)
                IN  RAGEngineWithVision_is_image_file(detect_file_type(file_name))
                    /\ x.vision = "raise"
                    =>  /\ doc.metadata.type = "image"
                        /\ "error" \in DOMAIN doc.metadata
                        /\ doc.page_content = <<"[IMAGE: ", file_name, " - Could not process]">>
                        /\ ~r.raised
                        /\ r.value = <<doc>>
                        /\ r.e.processed_documents =
                               Append(engine.processed_documents, file_name)

\* C26, witness: an image has been ingested while the vision model failed.
C26_Witness ==
    /\ engine.class = "RAGEngineWithVision"
    /\ ret.op = "process_uploaded_file"
    /\ ret.arg = e_png
    /\ ~ret.raised
    /\ Len(ret.value) = 1
    /\ "error" \in DOMAIN ret.value[1].metadata
    /\ ret.value[1].metadata.type = "image"
    /\ engine.processed_documents = <<e_png>>

\* C28: whenever the chain exists, its retriever searches the index the
\* engine holds now (self.vectorstore), so that no ask_question returns a
\* source from an index that has been replaced.
C28_ChainRetrievesFromCurrentIndex ==
    engine.chain # None =>
        /\ engine.vectorstore # None
        /\ engine.chain.retriever.vectorstore = engine.vectorstore
        /\ \A question \in Questions, answer \in Answers :
               \A hits \in Hits(engine) :
                   LET r == ask_question(engine, question, "none", answer, hits)
                   IN  ~r.raised =>
                           \A i \in 1..Len(r.value.source_documents) :
                               r.value.source_documents[i] \in Range(engine.vectorstore.docs)

\* C29: after every handler of the application, st.session_state.current_model
\* is the model of the engine, whether the Switch Model clicks before it
\* succeeded or failed.
C29_CurrentModelIsEngineModel ==
    session.current_model = engine.model

\* C29, witness: a Switch Model click has failed on an engine with an index,
\* after a click that succeeded had changed the model.
C29_Witness ==
    /\ ret.op = "Switch Model"
    /\ ret.raised
    /\ ret.arg # engine.model
    /\ engine.vectorstore # None
    /\ engine.model # gpt_4o_mini

\* C30: after every handler of the application, document_processed is true
\* exactly when the engine answers through retrieval (self.chain is set).
C30_DocumentProcessedIffChain ==
    session.document_processed <=> engine.chain # None

\* the last n characters of chunk c are the first n characters of chunk d
SharedBoundary(c, d, n) ==
    /\ n <= Len(c)
    /\ n <= Len(d)
    /\ SubSeq(c, Len(c) - n + 1, Len(c)) = SubSeq(d, 1, n)

\* the text has no whitespace (so none of the separators but "")
NoWhitespace(text) == \A i \in 1..Len(text) : text[i] \notin Whitespace

\* scenario A: 3000 characters without a separator, split with chunk_size
\* 1000 and chunk_overlap 200, give 4 chunks of which every two neighbours
\* share 200 characters
ScenarioA ==
    chunk_size(engine) = 1000 /\ chunk_overlap(engine) = 200
    /\ Len(ret.arg) = 3000 /\ NoWhitespace(ret.arg)
    =>  /\ Len(ret.value) = 4
        /\ \A i \in 1..3 : SharedBoundary(ret.value[i], ret.value[i + 1], 200)

C31_EditModeHasEditedMessage ==
    session.edit_mode =>
        /\ session.edit_index \in Indices(session)
        /\ session.chat_history[session.edit_index + 1].role = "user"

\* the positions of the question/answer turns of a chat history: a user
\* message with the assistant message after it
HistoryTurns(chat_history) ==
    {i \in 1..(Len(chat_history) - 1) :
        /\ chat_history[i].role = "user"
        /\ chat_history[i + 1].role = "assistant"}

\* how often the turn (question, answer) is in the chat history
HistoryCount(chat_history, question, answer) ==
    Cardinality({i \in HistoryTurns(chat_history) :
                    /\ chat_history[i].content = question
                    /\ chat_history[i + 1].content = answer})

\* how often the turn (question, answer) is in the memory
MemoryCount(memory, question, answer) ==
    Cardinality({i \in 1..Len(memory.turns) :
                    memory.turns[i] = [question |-> question, answer |-> answer]})

\* C32: with documents processed, after a Send of an edited message or a
\* Retry, the memory of the chain holds no turn more often than the chat
\* history of the application shows it: a turn that was cut or regenerated
\* is not in the memory any more.
C32_MemoryHoldsOnlyTurnsOfHistory ==
    (/\ ret.op \in {"Send", "Retry"}
     /\ session.document_processed
     /\ engine.chain # None
     /\ engine.chain.memory # None)
    => \A question \in Questions, answer \in Answers :
           MemoryCount(engine.chain.memory, question, answer)
               <= HistoryCount(session.chat_history, question, answer)

\* C33: after every handler of the application, processed_files of the
\* application and processed_documents of the engine are the same sequence
\* without a repeated name, and they are empty unless the engine has an
\* index; also after a Process Documents click that failed and was repeated.
C33_ProcessedFilesAreIndexedFiles ==
    /\ session.processed_files = engine.processed_documents
    /\ \A i, j \in 1..Len(session.processed_files) :
           session.processed_files[i] = session.processed_files[j] => i = j
    /\ session.processed_files # <<>> => engine.vectorstore # None

\* C34: after every handler of the application, every assistant message of
\* chat_history has a user message immediately before it, whichever of the
\* ask_question calls of the chat input, Send and Retry failed.
C34_AssistantFollowsUser ==
    \A i \in 1..Len(session.chat_history) :
        session.chat_history[i].role = "assistant"
            => i > 1 /\ session.chat_history[i - 1].role = "user"

\* C34, witness: a Retry has put a new answer after its question, in a
\* history where an earlier question was left without an answer by an
\* ask_question that failed.
C34_Witness ==
    /\ ret.op = "Retry"
    /\ ~ret.raised
    /\ session.chat_history[Len(session.chat_history)].role = "assistant"
    /\ \E i \in 1..(Len(session.chat_history) - 1) :
           /\ session.chat_history[i].role = "user"
           /\ session.chat_history[i + 1].role = "user"

\* C35: for every model name of the catalog of the application, the
\* temperature the engine derives is the temperature an engine of either
\* class derives: no model is bound with a temperature that depends on the
\* class of the engine.
C35_ClassesDeriveSameTemperature ==
    \A model_name \in available_models, class \in Classes :
        get_temperature(engine, model_name)
            = get_temperature(new_engine(class, model_name), model_name)

\* names a user can give an uploaded file, besides FileNames: mixed case,
\* two extensions, a dot at the end, a dot at the start only
f_TxT == <<"f", ".", "T", "x", "T">>
g_tar_GZ == <<"g", ".", "t", "a", "r", ".", "G", "Z">>
h_dot == <<"h", ".">>
dot_env == <<".", "e", "n", "v">>

UploadNames == FileNames \cup {f_TxT, g_tar_GZ, h_dot, dot_env}

\* the extension of a file name in lower case: what follows the last dot,
\* empty when the name has no dot after its first character
LowerExtension(file_name) ==
    LET dot == rfind(file_name, ".")
    IN  IF dot > 1 THEN lower(SubSeq(file_name, dot + 1, Len(file_name))) ELSE <<>>

\* C36: for every name of an uploaded file, the file type the loader detects
\* from the path of the temporary copy is the extension of the name in lower
\* case, so the branch of the loader is the one the name's extension selects;
\* in particular for the file process_uploaded_file has just been called on.
C36_TmpPathKeepsFileType ==
    /\ \A file_name \in UploadNames :
           /\ detect_file_type(TmpPathOf(file_name)) = LowerExtension(file_name)
           /\ detect_file_type(TmpPathOf(file_name)) = detect_file_type(file_name)
    /\ ret.op = "process_uploaded_file" =>
           detect_file_type(TmpPathOf(ret.arg)) = LowerExtension(ret.arg)

\* C36, witness: process_uploaded_file has returned chunks for the file
\* named b.PDF, whose temporary copy is detected as pdf.
C36_Witness ==
    /\ ret.op = "process_uploaded_file"
    /\ ret.arg = b_PDF
    /\ ~ret.raised
    /\ ret.value # <<>>
    /\ detect_file_type(TmpPathOf(b_PDF)) = <<"p", "d", "f">>
    /\ splitext(TmpPathOf(b_PDF))[2] = <<".", "p", "d", "f">>

====
